---------------------------- MODULE Spec2Model ----------------------------
(***************************************************************************)
(* State-machine model of libavcodec/qsv.c: the QSV (Intel MediaSDK)       *)
(* decode session -- ff_qsv_init / ff_qsv_decode / ff_qsv_flush /          *)
(* ff_qsv_reinit / ff_qsv_close -- with its timestamp queue, surface list, *)
(* bitstream buffer and pending packet list.  The MediaSDK engine is the   *)
(* environment: every status it may hand back is a nondeterministic input. *)
(***************************************************************************)
EXTENDS Integers, Sequences, FiniteSets, TLC

(***************************************************************************)
(* Engine status codes (mfxStatus) as qsv.c uses them.                     *)
(***************************************************************************)
MFX_ERR_NONE == 0
MFX_ERR_UNKNOWN == -1
MFX_ERR_NULL_PTR == -2
MFX_ERR_UNSUPPORTED == -3
MFX_ERR_MEMORY_ALLOC == -4
MFX_ERR_NOT_ENOUGH_BUFFER == -5
MFX_ERR_INVALID_HANDLE == -6
MFX_ERR_LOCK_MEMORY == -7
MFX_ERR_NOT_INITIALIZED == -8
MFX_ERR_NOT_FOUND == -9
MFX_ERR_MORE_DATA == -10
MFX_ERR_MORE_SURFACE == -11
MFX_ERR_ABORTED == -12
MFX_ERR_DEVICE_LOST == -13
MFX_ERR_INCOMPATIBLE_VIDEO_PARAM == -14
MFX_ERR_INVALID_VIDEO_PARAM == -15
MFX_ERR_UNDEFINED_BEHAVIOR == -16
MFX_ERR_DEVICE_FAILED == -17
MFX_ERR_MORE_BITSTREAM == -18
MFX_WRN_DEVICE_BUSY == 2
MFX_WRN_VIDEO_PARAM_CHANGED == 3

(***************************************************************************)
(* libav error codes: AVERROR(e) is -e, AVERROR_BUG and AVERROR_UNKNOWN    *)
(* are negated four-character tags.                                        *)
(***************************************************************************)
AVERROR_ENOMEM == -12
AVERROR_EINVAL == -22
AVERROR_EIO == -5
AVERROR_ENOSYS == -38
AVERROR_EAGAIN == -11
AVERROR_BUG == -558323010
AVERROR_UNKNOWN == -1313558101

\* The "no timestamp" sentinel stored in free timestamp slots.
AV_NOPTS_VALUE == -1

\* q->param.AsyncDepth as ff_qsv_init sets it.
ASYNC_DEPTH_DEFAULT == 4

\* Headroom put_dts provisions for frame reordering.
REORDER_HEADROOM == 32

(***************************************************************************)
(* Bounds of the model.                                                    *)
(***************************************************************************)
MaxPuts == 5
MaxDecoded == 2
MaxSuggested == 1
MaxPackets == 2
MaxSurfaces == 2
Timeout == 1

PtsValues == {1, 2}
PtsInputs == PtsValues \cup {AV_NOPTS_VALUE}
SuggestedValues == 0..MaxSuggested
PktSizes == {2}

\* The bitstream buffer driven on its own: byte values, payloads of one or
\* two bytes, and at most MaxBsLength unread bytes.
MaxBsLength == 3
ByteValues == {1, 2}
Payloads == {<<x>> : x \in ByteValues} \cup
            {<<x, y>> : x \in ByteValues, y \in ByteValues}

\* The error translator driven on its own: every status from -MaxStatus to
\* MaxStatus, which takes in every MFX_ERR_ and MFX_WRN_ value above and
\* values that are none of them.
MaxStatus == 20
StatusInputs == (0 - MaxStatus)..MaxStatus

(***************************************************************************)
(* ErrorTranslator: ff_qsv_error.                                          *)
(***************************************************************************)
\* A translator that takes a warning for success.
ff_qsv_error_mut(mfx_err) ==
    CASE mfx_err >= MFX_ERR_NONE -> 0
      [] mfx_err \in {MFX_ERR_MEMORY_ALLOC, MFX_ERR_NOT_ENOUGH_BUFFER} -> AVERROR_ENOMEM
      [] mfx_err \in {MFX_ERR_INVALID_HANDLE, MFX_ERR_INCOMPATIBLE_VIDEO_PARAM,
                      MFX_ERR_INVALID_VIDEO_PARAM} -> AVERROR_EINVAL
      [] mfx_err \in {MFX_ERR_DEVICE_FAILED, MFX_ERR_DEVICE_LOST,
                      MFX_ERR_LOCK_MEMORY} -> AVERROR_EIO
      [] mfx_err \in {MFX_ERR_NULL_PTR, MFX_ERR_UNDEFINED_BEHAVIOR,
                      MFX_ERR_NOT_INITIALIZED} -> AVERROR_BUG
      [] mfx_err \in {MFX_ERR_UNSUPPORTED, MFX_ERR_NOT_FOUND} -> AVERROR_ENOSYS
      [] mfx_err \in {MFX_ERR_MORE_DATA, MFX_ERR_MORE_SURFACE,
                      MFX_ERR_MORE_BITSTREAM} -> AVERROR_EAGAIN
      [] OTHER -> AVERROR_UNKNOWN

\* ff_qsv_error: the switch over the status, with its default.
ff_qsv_error(mfx_err) ==
    CASE mfx_err = MFX_ERR_NONE -> 0
      [] mfx_err \in {MFX_ERR_MEMORY_ALLOC, MFX_ERR_NOT_ENOUGH_BUFFER} -> AVERROR_ENOMEM
      [] mfx_err = MFX_ERR_INVALID_HANDLE -> AVERROR_EINVAL
      [] mfx_err \in {MFX_ERR_DEVICE_FAILED, MFX_ERR_DEVICE_LOST,
                      MFX_ERR_LOCK_MEMORY} -> AVERROR_EIO
      [] mfx_err \in {MFX_ERR_NULL_PTR, MFX_ERR_UNDEFINED_BEHAVIOR,
                      MFX_ERR_NOT_INITIALIZED} -> AVERROR_BUG
      [] mfx_err \in {MFX_ERR_UNSUPPORTED, MFX_ERR_NOT_FOUND} -> AVERROR_ENOSYS
      [] mfx_err \in {MFX_ERR_MORE_DATA, MFX_ERR_MORE_SURFACE,
                      MFX_ERR_MORE_BITSTREAM} -> AVERROR_EAGAIN
      [] mfx_err \in {MFX_ERR_INCOMPATIBLE_VIDEO_PARAM,
                      MFX_ERR_INVALID_VIDEO_PARAM} -> AVERROR_EINVAL
      [] OTHER -> AVERROR_UNKNOWN

(***************************************************************************)
(* TimestampQueue: q->timestamps (an array of nb_timestamps slots),        *)
(* q->put_dts_cnt and q->decoded_cnt.  Slot i of the C array is element    *)
(* i + 1 of the sequence.                                                  *)
(***************************************************************************)
EmptySlot == [pts |-> AV_NOPTS_VALUE, dts |-> AV_NOPTS_VALUE]

\* A reset that puts the sentinel into the pts field only.
reset_timestamps_mut(ts) ==
    [i \in 1..Len(ts) |-> [ts[i] EXCEPT !.pts = AV_NOPTS_VALUE]]

\* reset_timestamps: every slot of the array gets the sentinel in both fields.
reset_timestamps(ts) == [i \in 1..Len(ts) |-> EmptySlot]

\* The array ff_qsv_init allocates (av_mallocz_array) and then resets.
fresh_timestamps(n) == reset_timestamps([i \in 1..n |-> [pts |-> 0, dts |-> 0]])

\* A growth that leaves copies of old slots in the slots it adds.
realloc_timestamps_mut(ts, old_nmemb, new_nmemb) ==
    [i \in 1..new_nmemb |-> IF i <= old_nmemb /\ i <= Len(ts)
                              THEN ts[i] ELSE ts[((i - 1) % Len(ts)) + 1]]

\* realloc_timestamps, on success: the first old_nmemb slots are kept where
\* they are, slots old_nmemb .. new_nmemb-1 get the sentinel.
realloc_timestamps(ts, old_nmemb, new_nmemb) ==
    [i \in 1..new_nmemb |-> IF i <= old_nmemb /\ i <= Len(ts)
                              THEN ts[i] ELSE EmptySlot]

\* A capacity rule that keeps asking for headroom after the first frame.
put_dts_grow_mut(nb, cnt, dec) ==
    IF dec = 0 /\ nb = cnt THEN nb * 2
    ELSE IF dec >= 1 /\ nb < cnt + REORDER_HEADROOM THEN cnt + REORDER_HEADROOM
    ELSE 0

\* The capacity put_dts asks realloc_timestamps for; 0 when it asks for none.
put_dts_grow(nb, cnt, dec) ==
    IF dec = 0 /\ nb = cnt THEN nb * 2
    ELSE IF dec = 1 /\ nb < cnt + REORDER_HEADROOM THEN cnt + REORDER_HEADROOM
    ELSE 0

\* A put_dts that picks the slot by the capacity before growth.
put_dts_mut(ts, nb, cnt, dec, pts, dts, alloc_ok) ==
    LET want == put_dts_grow(nb, cnt, dec)
    IN  IF want # 0 /\ ~alloc_ok
        THEN [ret |-> AVERROR_ENOMEM, timestamps |-> ts,
              nb_timestamps |-> nb, put_dts_cnt |-> cnt]
        ELSE LET ts1 == IF want # 0 THEN realloc_timestamps(ts, nb, want) ELSE ts
                 nb1 == IF want # 0 THEN want ELSE nb
                 i   == cnt % nb
             IN  [ret |-> 0,
                  timestamps |-> [ts1 EXCEPT ![i + 1] = [pts |-> pts, dts |-> dts]],
                  nb_timestamps |-> nb1,
                  put_dts_cnt |-> cnt + 1]

\* put_dts.  alloc_ok is whether av_realloc_array succeeds when called.
\* The result is the return value and the queue fields after the call.
put_dts(ts, nb, cnt, dec, pts, dts, alloc_ok) ==
    LET want == put_dts_grow(nb, cnt, dec)
    IN  IF want # 0 /\ ~alloc_ok
        THEN [ret |-> AVERROR_ENOMEM, timestamps |-> ts,
              nb_timestamps |-> nb, put_dts_cnt |-> cnt]
        ELSE LET ts1 == IF want # 0 THEN realloc_timestamps(ts, nb, want) ELSE ts
                 nb1 == IF want # 0 THEN want ELSE nb
                 i   == cnt % nb1
             IN  [ret |-> 0,
                  timestamps |-> [ts1 EXCEPT ![i + 1] = [pts |-> pts, dts |-> dts]],
                  nb_timestamps |-> nb1,
                  put_dts_cnt |-> cnt + 1]

\* The scan of get_dts: the first index i in 0..nb-1 whose pts matches, or nb.
RECURSIVE scan_pts(_, _, _, _)
scan_pts(ts, nb, pts, i) ==
    IF i = nb THEN nb
    ELSE IF ts[i + 1].pts = pts THEN i
    ELSE scan_pts(ts, nb, pts, i + 1)

\* A get_dts that leaves the slot it found as it is.
get_dts_mut(ts, nb, pts) ==
    IF pts = AV_NOPTS_VALUE
    THEN [ret |-> 0, dts |-> AV_NOPTS_VALUE, timestamps |-> ts]
    ELSE LET i == scan_pts(ts, nb, pts, 0)
         IN  IF i = nb
             THEN [ret |-> AVERROR_BUG, dts |-> AV_NOPTS_VALUE, timestamps |-> ts]
             ELSE [ret |-> 0, dts |-> ts[i + 1].dts, timestamps |-> ts]

\* get_dts: the return value, *dts, and the array after the call.
get_dts(ts, nb, pts) ==
    IF pts = AV_NOPTS_VALUE
    THEN [ret |-> 0, dts |-> AV_NOPTS_VALUE, timestamps |-> ts]
    ELSE LET i == scan_pts(ts, nb, pts, 0)
         IN  IF i = nb
             THEN [ret |-> AVERROR_BUG, dts |-> AV_NOPTS_VALUE, timestamps |-> ts]
             ELSE [ret |-> 0, dts |-> ts[i + 1].dts,
                   timestamps |-> [ts EXCEPT ![i + 1].pts = AV_NOPTS_VALUE]]


(***************************************************************************)
(* SurfacePool: q->surflist, a singly linked list that is only appended to *)
(* (an entry never moves) until free_surface_list drops all of it.  Of a   *)
(* surface the model keeps the engine's Locked flag.                       *)
(***************************************************************************)

\* The scan of get_surface: the first entry from i on whose Locked is clear,
\* 0 when there is none.
RECURSIVE first_unlocked(_, _)
first_unlocked(list, i) ==
    IF i > Len(list) THEN 0
    ELSE IF ~list[i].Locked THEN i
    ELSE first_unlocked(list, i + 1)

\* A get_surface that hands out the head of the list whatever its lock.
get_surface_mut(list, alloc_ok) ==
    IF Len(list) > 0 THEN [insurf |-> 1, surflist |-> list]
    ELSE IF alloc_ok
         THEN [insurf |-> 1, surflist |-> <<[Locked |-> FALSE]>>]
         ELSE [insurf |-> 0, surflist |-> list]

\* get_surface: the surface handed out (0 for NULL) and the list after the
\* call.  alloc_ok is whether alloc_surface_list_entry succeeds when called.
get_surface(list, alloc_ok) ==
    LET i == first_unlocked(list, 1)
    IN  IF i # 0 THEN [insurf |-> i, surflist |-> list]
        ELSE IF alloc_ok
             THEN [insurf |-> Len(list) + 1,
                   surflist |-> Append(list, [Locked |-> FALSE])]
             ELSE [insurf |-> 0, surflist |-> list]

\* free_surface_list: every entry is freed, whatever its Locked flag.
free_surface_list(list) == <<>>

\* Whether freeing this list frees a surface the engine still has locked.
frees_locked(list) == \E i \in 1..Len(list) : list[i].Locked

\* What a successful MFXVideoDECODE_Reset / MFXClose does to the locks the
\* engine holds: it drops them all.
engine_release(list) == [i \in 1..Len(list) |-> [list[i] EXCEPT !.Locked = FALSE]]

(***************************************************************************)
(* BitstreamBuffer: q->bs, here by its offsets and sizes.  Data is "null"  *)
(* while bs->Data is a null pointer.                                       *)
(***************************************************************************)

\* bitstream_realloc.  alloc_ok is whether av_realloc succeeds when called.
bitstream_realloc(b, size, alloc_ok) ==
    IF b.MaxLength >= size THEN [ret |-> 0, bs |-> b]
    ELSE IF ~alloc_ok
         THEN [ret |-> AVERROR_ENOMEM, bs |-> [b EXCEPT !.Data = "null"]]
         ELSE [ret |-> 0, bs |-> [b EXCEPT !.Data = "ok", !.MaxLength = size]]

\* A bitstream_enqueue that never moves the unread bytes to the front.
bitstream_enqueue_mut(b, size, alloc_ok) ==
    LET r == bitstream_realloc(b, b.DataLength + size, alloc_ok)
    IN  IF r.ret < 0 THEN [ret |-> r.ret, bs |-> r.bs, wild |-> FALSE]
        ELSE [ret |-> 0,
              bs |-> [r.bs EXCEPT !.DataLength = @ + size],
              wild |-> (r.bs.Data = "null")]

\* bitstream_enqueue of size bytes.  wild: the copy went through a null
\* bs->Data (MaxLength still claims storage a failed realloc has freed).
bitstream_enqueue(b, size, alloc_ok) ==
    LET bs_size == b.DataLength + size
        r       == bitstream_realloc(b, bs_size, alloc_ok)
    IN  IF r.ret < 0 THEN [ret |-> r.ret, bs |-> r.bs, wild |-> FALSE]
        ELSE LET b1 == r.bs
                 b2 == IF bs_size > b1.MaxLength - b1.DataOffset
                       THEN [b1 EXCEPT !.DataOffset = 0] ELSE b1
             IN  [ret |-> 0,
                  bs |-> [b2 EXCEPT !.DataLength = @ + size],
                  wild |-> (b1.Data = "null")]

\* What av_realloc(bs->Data, size) in bitstream_realloc does to the storage:
\* the old bytes are kept and the new ones hold anything (0); on failure
\* the old storage is freed by av_freep.
mem_realloc(m, b, size, alloc_ok) ==
    IF b.MaxLength >= size THEN m
    ELSE IF ~alloc_ok THEN <<>>
         ELSE [i \in 1..size |-> IF i <= Len(m) THEN m[i] ELSE 0]

\* A copy of the storage in which the unread bytes stay where they are.
mem_enqueue_mut(m, b, data, alloc_ok) ==
    LET bs_size == b.DataLength + Len(data)
        r       == bitstream_realloc(b, bs_size, alloc_ok)
        m1      == mem_realloc(m, b, bs_size, alloc_ok)
        off     == IF bs_size > r.bs.MaxLength - r.bs.DataOffset
                   THEN 0 ELSE r.bs.DataOffset
        at      == off + b.DataLength
    IN  IF r.ret < 0 THEN m1
        ELSE IF r.bs.Data = "null" THEN m
        ELSE [i \in 1..Len(m1) |->
                 IF i > at /\ i <= at + Len(data) THEN data[i - at] ELSE m1[i]]

\* What bitstream_enqueue does to the storage: the memmove of the unread
\* bytes to the front when the tail is too short, then the memcpy of data
\* behind them.  Through a null bs->Data nothing is stored.
mem_enqueue(m, b, data, alloc_ok) ==
    LET bs_size == b.DataLength + Len(data)
        r       == bitstream_realloc(b, bs_size, alloc_ok)
        m1      == mem_realloc(m, b, bs_size, alloc_ok)
        move    == bs_size > r.bs.MaxLength - r.bs.DataOffset
        m2      == IF move
                   THEN [i \in 1..Len(m1) |->
                            IF i <= b.DataLength THEN m1[b.DataOffset + i]
                            ELSE m1[i]]
                   ELSE m1
        off     == IF move THEN 0 ELSE r.bs.DataOffset
        at      == off + b.DataLength
    IN  IF r.ret < 0 THEN m1
        ELSE IF r.bs.Data = "null" THEN m
        ELSE [i \in 1..Len(m1) |->
                 IF i > at /\ i <= at + Len(data) THEN data[i - at] ELSE m2[i]]

\* The bytes the engine sees: DataLength bytes from DataOffset on.
visible(m, b) == SubSeq(m, b.DataOffset + 1, b.DataOffset + b.DataLength)

(***************************************************************************)
(* State.                                                                  *)
(*   life           "none" before ff_qsv_init, "active" after a successful *)
(*                  init, "failed" after a failed init/reinit, "closed"    *)
(*                  after ff_qsv_close, "crashed" after a wild pointer was *)
(*                  dereferenced                                           *)
(*   need_reinit, last_ret, timestamps, nb_timestamps, put_dts_cnt,        *)
(*   decoded_cnt, bs, surflist, pending    the fields of QSVContext        *)
(*   pc, loc        position inside ff_qsv_decode and its locals           *)
(*                  (loc.entry_reinit: q->need_reinit as line 347 read it) *)
(*   out            what the last public call returned                     *)
(*   inflight       timestamps the engine has taken in and not yet output  *)
(* History (not program state):                                            *)
(*   owed           per pts, the dts values it was put with since the last *)
(*                  successful get of that pts                             *)
(*   dup_put        a pts was put while it was still owed                  *)
(*   clobbered      a put stored into a slot whose pts was not the sentinel*)
(*   g              argument and result of the last get_dts                *)
(*   n_double, n_reorder   growths of either kind since the last init      *)
(*   freed_locked   the last call freed a surface whose Locked flag was   *)
(*                  set                                                    *)
(*   submitted      number of non-empty packets ff_qsv_decode was called   *)
(*                  with                                                   *)
(*   kept (field of a pending packet)   the packet was in the queue when a *)
(*                  reinit asked for by need_reinit completed              *)
(*   resubmitted    the current or last decode call popped such a packet   *)
(*                  and gave it to put_dts and bitstream_enqueue           *)
(* The bitstream buffer with its bytes (SpecBS):                           *)
(*   mem            the storage bs->Data points to, one number per byte,   *)
(*                  0 for a byte nothing was stored to; <<>> while         *)
(*                  bs->Data is null                                       *)
(*   fed            the bytes enqueued and not yet consumed, in order      *)
(*   bs_failed      a bitstream_enqueue has failed                         *)
(*   bs_did         an enqueue has grown the storage (grew), has moved     *)
(*                  unread bytes to the front (moved)                      *)
(* The error translator (SpecErr):                                         *)
(*   xl             argument and result of the last two ff_qsv_error calls *)
(***************************************************************************)
VARIABLES life, need_reinit, last_ret,
          timestamps, nb_timestamps, put_dts_cnt, decoded_cnt,
          bs, surflist, pending, pc, loc, out, inflight,
          owed, dup_put, clobbered, g, n_double, n_reorder,
          freed_locked, submitted, resubmitted,
          mem, fed, bs_failed, bs_did, xl

tsvars   == <<timestamps, nb_timestamps, put_dts_cnt, decoded_cnt>>
histvars == <<owed, dup_put, clobbered, g, n_double, n_reorder>>
sessvars == <<life, need_reinit, last_ret, bs, surflist, pending, pc, loc, out,
              inflight, freed_locked, submitted, resubmitted>>
vars     == <<life, need_reinit, last_ret,
              timestamps, nb_timestamps, put_dts_cnt, decoded_cnt,
              bs, surflist, pending, pc, loc, out, inflight,
              owed, dup_put, clobbered, g, n_double, n_reorder,
              freed_locked, submitted, resubmitted,
              mem, fed, bs_failed, bs_did, xl>>

\* The variables of the units driven on their own (the bitstream buffer with
\* its bytes, the error translator); the session leaves them as they are.
unitvars == <<mem, fed, bs_failed, bs_did, xl>>
NoDid    == [grew |-> FALSE, moved |-> FALSE]
NoXl     == [err |-> 0, ret |-> 0, prev_err |-> 0, prev_ret |-> 0]
UnitIdle == mem = <<>> /\ fed = <<>> /\ bs_failed = FALSE /\ bs_did = NoDid
            /\ xl = NoXl

\* Packets come in decode order: the k-th packet submitted carries dts 10 + k.
DtsOf(k) == 10 + k

\* The pts of the k-th packet of a session.
PtsOf(k) == (k % Cardinality(PtsValues)) + 1

\* What a read through a pointer nothing was stored to can give as a
\* timestamp: one some packet carried, or one none did.
WildTimestamps == PtsValues \cup {0}

NoOwed   == [p \in PtsValues |-> {}]
NoGet    == [valid |-> FALSE, pts |-> AV_NOPTS_VALUE, ret |-> 0,
             dts |-> AV_NOPTS_VALUE, expected |-> {},
             prev_pts |-> AV_NOPTS_VALUE, prev_ret |-> 0]

(***************************************************************************)
(* The timestamp part of each operation, shared by the session and by the  *)
(* queue driven on its own.                                                *)
(***************************************************************************)

\* ff_qsv_init, lines 143-151: sizing and clearing of the queue.
InitTimestamps(suggested) ==
    /\ nb_timestamps' = suggested + ASYNC_DEPTH_DEFAULT
    /\ put_dts_cnt' = 0
    /\ decoded_cnt' = 0
    /\ timestamps' = fresh_timestamps(suggested + ASYNC_DEPTH_DEFAULT)
    /\ owed' = NoOwed /\ dup_put' = FALSE /\ clobbered' = FALSE
    /\ g' = NoGet /\ n_double' = 0 /\ n_reorder' = 0

\* The call put_dts(q, pkt.pts, pkt.dts) of ff_qsv_decode, line 362.
PutTimestamps(pts, dts, alloc_ok) ==
    LET r    == put_dts(timestamps, nb_timestamps, put_dts_cnt, decoded_cnt,
                        pts, dts, alloc_ok)
        slot == put_dts_cnt % r.nb_timestamps
        grew == r.nb_timestamps # nb_timestamps
    IN  /\ timestamps' = r.timestamps
        /\ nb_timestamps' = r.nb_timestamps
        /\ put_dts_cnt' = r.put_dts_cnt
        /\ decoded_cnt' = decoded_cnt
        /\ IF r.ret = 0
           THEN /\ clobbered' = (clobbered \/
                                 (slot < nb_timestamps /\
                                  timestamps[slot + 1].pts # AV_NOPTS_VALUE))
                /\ dup_put' = (dup_put \/
                               (pts # AV_NOPTS_VALUE /\ owed[pts] # {}))
                /\ owed' = IF pts = AV_NOPTS_VALUE THEN owed
                           ELSE [owed EXCEPT ![pts] = @ \cup {dts}]
                /\ n_double' = IF grew /\ decoded_cnt = 0 THEN n_double + 1 ELSE n_double
                /\ n_reorder' = IF grew /\ decoded_cnt # 0 THEN n_reorder + 1 ELSE n_reorder
           ELSE UNCHANGED <<clobbered, dup_put, owed, n_double, n_reorder>>
        /\ g' = NoGet

\* ff_qsv_decode, lines 424-437: get_dts on the output timestamp and, when it
\* and the following ff_get_buffer succeed, decoded_cnt++.
GetTimestamps(pts, buf_ok) ==
    LET r == get_dts(timestamps, nb_timestamps, pts)
    IN  /\ timestamps' = r.timestamps
        /\ decoded_cnt' = IF r.ret = 0 /\ buf_ok THEN decoded_cnt + 1 ELSE decoded_cnt
        /\ UNCHANGED <<nb_timestamps, put_dts_cnt>>
        /\ g' = [valid |-> TRUE, pts |-> pts, ret |-> r.ret, dts |-> r.dts,
                 expected |-> IF pts = AV_NOPTS_VALUE THEN {} ELSE owed[pts],
                 prev_pts |-> g.pts, prev_ret |-> g.ret]
        /\ owed' = IF pts # AV_NOPTS_VALUE /\ r.ret = 0
                   THEN [owed EXCEPT ![pts] = {}] ELSE owed
        /\ UNCHANGED <<dup_put, clobbered, n_double, n_reorder>>

\* ff_qsv_flush, line 469: reset_timestamps; the counters are left alone.
FlushTimestamps ==
    /\ timestamps' = reset_timestamps(timestamps)
    /\ UNCHANGED <<nb_timestamps, put_dts_cnt, decoded_cnt>>
    /\ owed' = NoOwed /\ dup_put' = FALSE /\ clobbered' = FALSE
    /\ g' = NoGet
    /\ UNCHANGED <<n_double, n_reorder>>

(***************************************************************************)
(* SpecTS: the timestamp queue driven by the calls the session makes on    *)
(* it (init sizing, put_dts, the get_dts of a produced frame, the reset of *)
(* a flush, the re-sizing of a reinit), in any order and with any          *)
(* arguments.                                                              *)
(***************************************************************************)
IdleLoc == [bs_null |-> FALSE, ret |-> 0, busymsec |-> 0, size |-> 0,
            sync |-> "uninit", insurf |-> 0, outts |-> AV_NOPTS_VALUE,
            entry_reinit |-> FALSE]
NoOut   == [op |-> "none", rv |-> 0, got_frame |-> FALSE]
EmptyBs == [DataOffset |-> 0, DataLength |-> 0, MaxLength |-> 0,
            TimeStamp |-> AV_NOPTS_VALUE, Data |-> "null"]

TSInitState ==
    /\ life = "active" /\ need_reinit = FALSE /\ last_ret = MFX_ERR_MORE_DATA
    /\ \E s \in SuggestedValues :
          /\ nb_timestamps = s + ASYNC_DEPTH_DEFAULT
          /\ timestamps = fresh_timestamps(s + ASYNC_DEPTH_DEFAULT)
    /\ put_dts_cnt = 0 /\ decoded_cnt = 0
    /\ bs = EmptyBs /\ surflist = <<>> /\ pending = <<>>
    /\ pc = "idle" /\ loc = IdleLoc /\ out = NoOut /\ inflight = {}
    /\ owed = NoOwed /\ dup_put = FALSE /\ clobbered = FALSE
    /\ g = NoGet /\ n_double = 0 /\ n_reorder = 0
    /\ freed_locked = FALSE /\ submitted = 0 /\ resubmitted = FALSE
    /\ UnitIdle

TsPut ==
    /\ put_dts_cnt < MaxPuts
    /\ \E pts \in PtsInputs, alloc_ok \in BOOLEAN :
          PutTimestamps(pts, DtsOf(put_dts_cnt), alloc_ok)
    /\ UNCHANGED sessvars /\ UNCHANGED unitvars

\* The engine outputs no more frames than packets were submitted to it.
TsGet ==
    /\ decoded_cnt < MaxDecoded
    /\ decoded_cnt < put_dts_cnt
    /\ \E pts \in PtsInputs, buf_ok \in BOOLEAN : GetTimestamps(pts, buf_ok)
    /\ UNCHANGED sessvars /\ UNCHANGED unitvars

TsFlush ==
    /\ FlushTimestamps
    /\ UNCHANGED sessvars /\ UNCHANGED unitvars

TsReinit ==
    /\ \E s \in SuggestedValues : InitTimestamps(s)
    /\ UNCHANGED sessvars /\ UNCHANGED unitvars

TSNext == TsPut \/ TsGet \/ TsFlush \/ TsReinit

SpecTS == TSInitState /\ [][TSNext]_vars


(***************************************************************************)
(* Properties of the timestamp queue (checked under SpecTS).               *)
(***************************************************************************)

\* A step that completed a put_dts: only put_dts increments the counter.
IsPutStep == put_dts_cnt' = put_dts_cnt + 1

\* The slot a completed put_dts wrote, as an index of the sequence.
PutSlot == (put_dts_cnt % nb_timestamps') + 1

\* Every slot but the one just written is as growth must leave it: slots
\* that existed keep their pair, slots that were added hold the sentinel.
GrowthKeepsEntries ==
    /\ Len(timestamps') = nb_timestamps'
    /\ \A i \in 1..nb_timestamps' :
          i # PutSlot =>
             timestamps'[i] = IF i <= nb_timestamps THEN timestamps[i] ELSE EmptySlot

\* The pair the put was called with is in the slot put_dts_cnt mod capacity.
PutStoredPair ==
    LET e == timestamps'[PutSlot]
    IN  /\ e.dts = DtsOf(put_dts_cnt)
        /\ e.pts # AV_NOPTS_VALUE => e.dts \in owed'[e.pts]

C7_DoublingOnDelay ==
    [][(IsPutStep /\ decoded_cnt = 0 /\ put_dts_cnt = nb_timestamps) =>
          /\ nb_timestamps' = 2 * nb_timestamps
          /\ GrowthKeepsEntries
          /\ \A i \in 1..nb_timestamps : timestamps'[i] = timestamps[i]
          /\ PutSlot = (put_dts_cnt % (2 * nb_timestamps)) + 1
          /\ PutStoredPair]_vars

\* The queue was full with no frame decoded, and one more put doubled it.
C7_Witness ==
    /\ n_double = 1 /\ decoded_cnt = 0
    /\ nb_timestamps = 2 * (put_dts_cnt - 1)
    /\ timestamps[put_dts_cnt].dts = DtsOf(put_dts_cnt - 1)

\* C8: a put made with exactly one frame decoded and N < put_dts_cnt + 32
\* leaves capacity put_dts_cnt + 32, old entries in place and sentinels in
\* the new slots; a put made with two or more frames decoded leaves the
\* capacity as it was.
C8_GrowOnReorder ==
    [][IsPutStep =>
          /\ (decoded_cnt = 1 /\ nb_timestamps < put_dts_cnt + REORDER_HEADROOM) =>
                /\ nb_timestamps' = put_dts_cnt + REORDER_HEADROOM
                /\ GrowthKeepsEntries
                /\ PutStoredPair
          /\ decoded_cnt \notin {0, 1} =>
                /\ nb_timestamps' = nb_timestamps
                /\ Len(timestamps') = Len(timestamps)]_vars

\* After the first decoded frame a put grew the queue to count + 32.
C8_Witness ==
    /\ n_reorder = 1 /\ decoded_cnt = 1 /\ put_dts_cnt >= 2
    /\ nb_timestamps = (put_dts_cnt - 1) + REORDER_HEADROOM

\* C9 as stated: between one init and the next, each of the two growths
\* fires at most once.
C9_EachGrowthAtMostOnce == n_double <= 1 /\ n_reorder <= 1

\* C9 (amended): the capacity changes only when the queue is sized afresh
\* (counters back to zero) or inside a put, and there only by the doubling
\* (no frame decoded, counter equal to capacity) or by the growth to
\* count + 32 (exactly one frame decoded, capacity below count + 32); either
\* may fire again on a later put, and the number of firings never exceeds
\* the number of puts.
C9_GrowthOnlyAtTriggers ==
    [][/\ nb_timestamps' # nb_timestamps =>
             \/ put_dts_cnt' = 0 /\ decoded_cnt' = 0
             \/ /\ IsPutStep /\ decoded_cnt = 0 /\ put_dts_cnt = nb_timestamps
                /\ nb_timestamps' = 2 * nb_timestamps
             \/ /\ IsPutStep /\ decoded_cnt = 1
                /\ nb_timestamps < put_dts_cnt + REORDER_HEADROOM
                /\ nb_timestamps' = put_dts_cnt + REORDER_HEADROOM
       /\ n_double' + n_reorder' <= put_dts_cnt']_vars

\* The growth to count + 32 has fired on two puts of one session.
C9_Witness == n_reorder >= 2 /\ decoded_cnt = 1

\* No non-sentinel pts sits in two slots.
NoPtsInTwoSlots ==
    \A i \in 1..Len(timestamps) : \A j \in 1..Len(timestamps) :
        (i # j /\ timestamps[i].pts # AV_NOPTS_VALUE) =>
            timestamps[i].pts # timestamps[j].pts

\* C10 as stated: in every state no non-sentinel pts is in two slots.
C10_UniqueAlways == NoPtsInTwoSlots

\* C10 (amended): no non-sentinel pts is in two slots as long as no packet
\* was submitted with a pts equal to one submitted and not yet retrieved.
C10_UniqueUnlessResubmitted == ~dup_put => NoPtsInTwoSlots

\* Several distinct pts are outstanding at once, each in one slot, after a
\* get has freed a slot.
C10_Witness ==
    /\ ~dup_put /\ decoded_cnt >= 1
    /\ \E i \in 1..Len(timestamps) : \E j \in 1..Len(timestamps) :
          /\ i # j
          /\ timestamps[i].pts # AV_NOPTS_VALUE
          /\ timestamps[j].pts # AV_NOPTS_VALUE
    /\ \E k \in 1..Len(timestamps) :
          timestamps[k].pts = AV_NOPTS_VALUE /\ timestamps[k].dts # AV_NOPTS_VALUE


(***************************************************************************)
(* Spec: the decode session.  ff_qsv_decode is taken in steps, because the *)
(* engine runs beside it: the entry (lines 335-352), the head of one loop  *)
(* iteration up to get_surface (354-393), the asynchronous decode call     *)
(* with the busy handling and the loop test (395-411), and the exit        *)
(* (413-455).  The engine clears surface locks at any time.                *)
(***************************************************************************)

\* The statuses MFXVideoDECODE_DecodeFrameAsync hands back in the model.
EngineStatuses ==
    {MFX_ERR_NONE, MFX_ERR_MORE_DATA, MFX_ERR_MORE_SURFACE, MFX_WRN_DEVICE_BUSY,
     MFX_WRN_VIDEO_PARAM_CHANGED, MFX_ERR_INCOMPATIBLE_VIDEO_PARAM,
     MFX_ERR_DEVICE_FAILED}

\* The statuses on which the do-while of ff_qsv_decode goes round again.
RetrySet ==
    {MFX_ERR_MORE_SURFACE, MFX_ERR_MORE_DATA, MFX_WRN_DEVICE_BUSY,
     MFX_WRN_VIDEO_PARAM_CHANGED, MFX_ERR_INCOMPATIBLE_VIDEO_PARAM}

\* The zeroed QSVContext ff_qsv_init is first called on.
Init ==
    /\ life = "none" /\ need_reinit = FALSE /\ last_ret = 0
    /\ timestamps = <<>> /\ nb_timestamps = 0
    /\ put_dts_cnt = 0 /\ decoded_cnt = 0
    /\ bs = EmptyBs /\ surflist = <<>> /\ pending = <<>>
    /\ pc = "idle" /\ loc = IdleLoc /\ out = NoOut /\ inflight = {}
    /\ owed = NoOwed /\ dup_put = FALSE /\ clobbered = FALSE
    /\ g = NoGet /\ n_double = 0 /\ n_reorder = 0
    /\ freed_locked = FALSE /\ submitted = 0 /\ resubmitted = FALSE
    /\ UnitIdle

\* The timestamp part of the session's steps.  The history of the queue is
\* kept only where the queue is driven on its own (SpecTS).
SessPut(pts, dts, alloc_ok) ==
    LET r == put_dts(timestamps, nb_timestamps, put_dts_cnt, decoded_cnt,
                     pts, dts, alloc_ok)
    IN  /\ timestamps' = r.timestamps
        /\ nb_timestamps' = r.nb_timestamps
        /\ put_dts_cnt' = r.put_dts_cnt
        /\ decoded_cnt' = decoded_cnt
        /\ UNCHANGED histvars

SessGet(pts, buf_ok) ==
    LET r == get_dts(timestamps, nb_timestamps, pts)
    IN  /\ timestamps' = r.timestamps
        /\ decoded_cnt' = IF r.ret = 0 /\ buf_ok THEN decoded_cnt + 1 ELSE decoded_cnt
        /\ UNCHANGED <<nb_timestamps, put_dts_cnt>>
        /\ UNCHANGED histvars

SessFlush ==
    /\ timestamps' = reset_timestamps(timestamps)
    /\ UNCHANGED <<nb_timestamps, put_dts_cnt, decoded_cnt>>
    /\ UNCHANGED histvars

\* A sizing that leaves the async depth out.
SessInit_mut(suggested) ==
    /\ nb_timestamps' = suggested
    /\ put_dts_cnt' = 0
    /\ decoded_cnt' = 0
    /\ timestamps' = fresh_timestamps(suggested)
    /\ UNCHANGED histvars

\* The sizing and reset of the timestamp queue in ff_qsv_init.
SessInit(suggested) ==
    /\ nb_timestamps' = suggested + ASYNC_DEPTH_DEFAULT
    /\ put_dts_cnt' = 0
    /\ decoded_cnt' = 0
    /\ timestamps' = fresh_timestamps(suggested + ASYNC_DEPTH_DEFAULT)
    /\ UNCHANGED histvars

\* A decode entry that keeps the bitstream although need_reinit is set.
flush_before_reinit_mut(need) == FALSE

\* Lines 347-349: with need_reinit set the call works with bs = NULL.
flush_before_reinit(need) == need

\* A busy test that gives up one sleep earlier.
busy_timed_out_mut(busymsec) == busymsec >= Timeout

\* Line 399: the test made on a MFX_WRN_DEVICE_BUSY answer, before the sleep
\* is counted.
busy_timed_out(busymsec) == busymsec > Timeout

\* The packets of a queue, marked as having been through a reinit.
keep(queue) == [i \in 1..Len(queue) |-> [queue[i] EXCEPT !.kept = TRUE]]

\* The packets of a queue as the program has them.
packets(queue) ==
    [i \in 1..Len(queue) |->
        [pts |-> queue[i].pts, dts |-> queue[i].dts, size |-> queue[i].size]]

\* A public call returns rv.
Return(op, rv) ==
    /\ pc' = "idle" /\ loc' = IdleLoc
    /\ out' = [op |-> op, rv |-> rv, got_frame |-> FALSE]

\* The process dies on a wild pointer.
Crash ==
    /\ life' = "crashed" /\ pc' = "idle" /\ loc' = IdleLoc
    /\ out' = [op |-> "crash", rv |-> 0, got_frame |-> FALSE]

(***************************************************************************)
(* ff_qsv_init.  fail_at names the call that fails, "none" when all        *)
(* succeed; suggested is req.NumFrameSuggested.  The body is shared with   *)
(* ff_qsv_reinit, which has freed q->timestamps before.                    *)
(***************************************************************************)
InitFailures == {"none", "codec", "session", "header", "iosurf", "alloc", "decinit"}

init_return(fail_at) ==
    CASE fail_at = "none"    -> 0
      [] fail_at = "codec"   -> AVERROR_ENOSYS
      [] fail_at = "session" -> ff_qsv_error(MFX_ERR_UNSUPPORTED)
      [] fail_at = "header"  -> ff_qsv_error(MFX_ERR_MORE_DATA)
      [] fail_at = "iosurf"  -> ff_qsv_error(MFX_ERR_INVALID_VIDEO_PARAM)
      [] fail_at = "alloc"   -> AVERROR_ENOMEM
      [] fail_at = "decinit" -> ff_qsv_error(MFX_ERR_MEMORY_ALLOC)

\* An init that empties the bitstream buffer whatever need_reinit is.
InitBody_mut(fail_at, suggested, old_ts) ==
    /\ bs' = IF fail_at \in {"codec", "session", "header"}
             THEN bs
             ELSE [bs EXCEPT !.DataLength = 0, !.DataOffset = 0]
    /\ IF fail_at \in {"codec", "session", "header", "iosurf"}
       THEN /\ timestamps' = old_ts
            /\ UNCHANGED <<nb_timestamps, put_dts_cnt, decoded_cnt, last_ret>>
            /\ UNCHANGED histvars
       ELSE IF fail_at = "alloc"
       THEN /\ nb_timestamps' = suggested + ASYNC_DEPTH_DEFAULT
            /\ put_dts_cnt' = 0 /\ decoded_cnt' = 0
            /\ last_ret' = MFX_ERR_MORE_DATA
            /\ timestamps' = <<>>
            /\ UNCHANGED histvars
       ELSE /\ SessInit(suggested)
            /\ last_ret' = MFX_ERR_MORE_DATA
    /\ life' = IF fail_at = "none" THEN "active" ELSE "failed"
    /\ inflight' = {}

\* old_ts is q->timestamps on entry (freed by the caller in a reinit).
InitBody(fail_at, suggested, old_ts) ==
    /\ bs' = IF fail_at \in {"codec", "session", "header"} \/ need_reinit
             THEN bs
             ELSE [bs EXCEPT !.DataLength = 0, !.DataOffset = 0]
    /\ IF fail_at \in {"codec", "session", "header", "iosurf"}
       THEN /\ timestamps' = old_ts
            /\ UNCHANGED <<nb_timestamps, put_dts_cnt, decoded_cnt, last_ret>>
            /\ UNCHANGED histvars
       ELSE IF fail_at = "alloc"
       THEN /\ nb_timestamps' = suggested + ASYNC_DEPTH_DEFAULT
            /\ put_dts_cnt' = 0 /\ decoded_cnt' = 0
            /\ last_ret' = MFX_ERR_MORE_DATA
            /\ timestamps' = <<>>
            /\ UNCHANGED histvars
       ELSE /\ SessInit(suggested)
            /\ last_ret' = MFX_ERR_MORE_DATA
    /\ life' = IF fail_at = "none" THEN "active" ELSE "failed"
    /\ inflight' = {}

QsvInit ==
    /\ life = "none" /\ pc = "idle"
    /\ \E fail_at \in InitFailures, suggested \in {MaxSuggested} :
          /\ InitBody(fail_at, suggested, timestamps)
          /\ Return("init", init_return(fail_at))
    /\ UNCHANGED <<need_reinit, surflist, pending, freed_locked>>
    /\ UNCHANGED <<submitted, resubmitted>> /\ UNCHANGED unitvars

(***************************************************************************)
(* ff_qsv_decode, entry: lines 335-352.  size = 0 is the empty packet of   *)
(* end-of-stream; queued is whether ff_packet_list_put (whose result is    *)
(* not looked at) stored the packet.                                       *)
(***************************************************************************)
DecodeBegin ==
    /\ life = "active" /\ pc = "idle"
    /\ \E size \in {0} \cup PktSizes, queued \in BOOLEAN :
          /\ size = 0 => ~queued
          /\ size # 0 => submitted < MaxPackets
          /\ submitted' = IF size # 0 THEN submitted + 1 ELSE submitted
          /\ resubmitted' = FALSE
          /\ pending' = IF size # 0 /\ queued
                        THEN Append(pending,
                                    [pts |-> PtsOf(submitted),
                                     dts |-> DtsOf(submitted),
                                     size |-> size, kept |-> FALSE])
                        ELSE pending
          /\ loc' = [bs_null |-> flush_before_reinit(need_reinit),
                     ret |-> last_ret, busymsec |-> 0,
                     size |-> size, sync |-> "uninit", insurf |-> -1,
                     outts |-> AV_NOPTS_VALUE,
                     entry_reinit |-> need_reinit]
    /\ pc' = "loop"
    /\ out' = [op |-> "decode", rv |-> 0, got_frame |-> FALSE]
    /\ freed_locked' = FALSE
    /\ UNCHANGED <<life, need_reinit, last_ret, bs, surflist, inflight>>
    /\ UNCHANGED tsvars /\ UNCHANGED histvars /\ UNCHANGED unitvars

\* Lines 392-393 with the locals l: get_surface, break when it gives NULL.
\* insurf is -1 until this line has assigned it, 0 for NULL, else the
\* position of the entry in the list.
Acquire(l, surf_ok) ==
    LET s == get_surface(surflist, surf_ok /\ Len(surflist) < MaxSurfaces)
    IN  /\ surflist' = s.surflist
        /\ IF s.insurf = 0
           THEN pc' = "end" /\ loc' = [l EXCEPT !.insurf = 0]
           ELSE pc' = "call" /\ loc' = [l EXCEPT !.insurf = s.insurf]
        /\ out' = out

\* MFX_ERR_MORE_DATA with the bitstream forced exhausted: break (line 356).
LoopDrainBreak ==
    /\ pc = "loop" /\ loc.ret = MFX_ERR_MORE_DATA /\ loc.bs_null
    /\ pc' = "end"
    /\ UNCHANGED <<life, need_reinit, last_ret, bs, surflist, pending, loc, out,
                   inflight, freed_locked>>
    /\ UNCHANGED tsvars /\ UNCHANGED histvars
    /\ UNCHANGED <<submitted, resubmitted>> /\ UNCHANGED unitvars

\* MFX_ERR_MORE_DATA with a packet pending: pop it, put_dts, enqueue its
\* bytes (lines 357-371), then get_surface.
LoopSubmit ==
    /\ pc = "loop" /\ loc.ret = MFX_ERR_MORE_DATA /\ ~loc.bs_null
    /\ pending # <<>>
    /\ \E ts_ok, bs_ok, surf_ok \in BOOLEAN :
          LET pkt == Head(pending)
              r   == put_dts(timestamps, nb_timestamps, put_dts_cnt, decoded_cnt,
                             pkt.pts, pkt.dts, ts_ok)
              e   == bitstream_enqueue([bs EXCEPT !.TimeStamp = pkt.pts],
                                       pkt.size, bs_ok)
          IN  /\ pending' = Tail(pending)
              /\ SessPut(pkt.pts, pkt.dts, ts_ok)
              /\ IF r.ret # 0
                 THEN /\ Return("decode", r.ret)
                      /\ UNCHANGED <<life, bs, surflist>>
                 ELSE IF e.ret < 0
                 THEN /\ Return("decode", e.ret)
                      /\ bs' = e.bs
                      /\ UNCHANGED <<life, surflist>>
                 ELSE IF e.wild
                 THEN /\ Crash
                      /\ bs' = e.bs
                      /\ UNCHANGED surflist
                 ELSE /\ bs' = e.bs
                      /\ Acquire([loc EXCEPT !.ret = 0], surf_ok)
                      /\ life' = life
              /\ resubmitted' = (resubmitted \/
                                   (pkt.kept /\ r.ret = 0 /\ e.ret = 0 /\ ~e.wild))
    /\ UNCHANGED <<need_reinit, last_ret, inflight, freed_locked>>
    /\ UNCHANGED submitted /\ UNCHANGED unitvars

\* An end-of-stream branch that does not look at the pending queue.
LoopEof_mut ==
    /\ pc = "loop" /\ loc.ret = MFX_ERR_MORE_DATA /\ ~loc.bs_null
    /\ loc.size = 0
    /\ \E surf_ok \in BOOLEAN : Acquire([loc EXCEPT !.bs_null = TRUE], surf_ok)
    /\ UNCHANGED <<life, need_reinit, last_ret, bs, pending, inflight,
                   freed_locked>>
    /\ UNCHANGED tsvars /\ UNCHANGED histvars
    /\ UNCHANGED <<submitted, resubmitted>> /\ UNCHANGED unitvars

\* MFX_ERR_MORE_DATA, nothing pending, empty incoming packet: the bitstream
\* is forced exhausted (line 374), then get_surface.
LoopEof ==
    /\ pc = "loop" /\ loc.ret = MFX_ERR_MORE_DATA /\ ~loc.bs_null
    /\ pending = <<>> /\ loc.size = 0
    /\ \E surf_ok \in BOOLEAN : Acquire([loc EXCEPT !.bs_null = TRUE], surf_ok)
    /\ UNCHANGED <<life, need_reinit, last_ret, bs, pending, inflight,
                   freed_locked>>
    /\ UNCHANGED tsvars /\ UNCHANGED histvars
    /\ UNCHANGED <<submitted, resubmitted>> /\ UNCHANGED unitvars

\* MFX_ERR_MORE_DATA, nothing pending, a non-empty incoming packet: break
\* (line 376).
LoopYield ==
    /\ pc = "loop" /\ loc.ret = MFX_ERR_MORE_DATA /\ ~loc.bs_null
    /\ pending = <<>> /\ loc.size # 0
    /\ pc' = "end"
    /\ UNCHANGED <<life, need_reinit, last_ret, bs, surflist, pending, loc, out,
                   inflight, freed_locked>>
    /\ UNCHANGED tsvars /\ UNCHANGED histvars
    /\ UNCHANGED <<submitted, resubmitted>> /\ UNCHANGED unitvars

\* An incompatible-parameter branch that does not ask for a reinit.
LoopIncompatible_mut ==
    /\ pc = "loop" /\ loc.ret = MFX_ERR_INCOMPATIBLE_VIDEO_PARAM
    /\ IF ~loc.bs_null
       THEN /\ need_reinit' = need_reinit
            /\ \E surf_ok \in BOOLEAN :
                  Acquire([loc EXCEPT !.bs_null = TRUE], surf_ok)
       ELSE /\ Return("decode", AVERROR_BUG)
            /\ UNCHANGED <<need_reinit, surflist>>
    /\ UNCHANGED <<life, last_ret, bs, pending, inflight, freed_locked>>
    /\ UNCHANGED tsvars /\ UNCHANGED histvars
    /\ UNCHANGED <<submitted, resubmitted>> /\ UNCHANGED unitvars

\* MFX_ERR_INCOMPATIBLE_VIDEO_PARAM (lines 381-390).
LoopIncompatible ==
    /\ pc = "loop" /\ loc.ret = MFX_ERR_INCOMPATIBLE_VIDEO_PARAM
    /\ IF ~loc.bs_null
       THEN /\ need_reinit' = TRUE
            /\ \E surf_ok \in BOOLEAN :
                  Acquire([loc EXCEPT !.bs_null = TRUE], surf_ok)
       ELSE /\ Return("decode", AVERROR_BUG)
            /\ UNCHANGED <<need_reinit, surflist>>
    /\ UNCHANGED <<life, last_ret, bs, pending, inflight, freed_locked>>
    /\ UNCHANGED tsvars /\ UNCHANGED histvars
    /\ UNCHANGED <<submitted, resubmitted>> /\ UNCHANGED unitvars

\* Any other status, MFX_WRN_VIDEO_PARAM_CHANGED among them: straight to
\* get_surface.
LoopOther ==
    /\ pc = "loop"
    /\ loc.ret \notin {MFX_ERR_MORE_DATA, MFX_ERR_INCOMPATIBLE_VIDEO_PARAM}
    /\ \E surf_ok \in BOOLEAN : Acquire(loc, surf_ok)
    /\ UNCHANGED <<life, need_reinit, last_ret, bs, pending, inflight,
                   freed_locked>>
    /\ UNCHANGED tsvars /\ UNCHANGED histvars
    /\ UNCHANGED <<submitted, resubmitted>> /\ UNCHANGED unitvars

DecodeLoop ==
    \/ LoopDrainBreak
    \/ LoopSubmit
    \/ LoopEof
    \/ LoopYield
    \/ LoopIncompatible
    \/ LoopOther


(***************************************************************************)
(* Lines 395-411: MFXVideoDECODE_DecodeFrameAsync and what follows it.     *)
(* The engine (environment) answers with status st.  With a bitstream that *)
(* holds bytes it may take them in, remembering bs->TimeStamp (it does on  *)
(* MFX_ERR_MORE_DATA, it may on MFX_ERR_NONE); it may keep the work        *)
(* surface locked; on MFX_ERR_NONE it sets *sync and hands out a frame     *)
(* carrying one of the timestamps it has taken in; on any other status it  *)
(* either stores NULL in *sync (wr) or leaves *sync as it was.             *)
(***************************************************************************)
DecodeCall ==
    /\ pc = "call"
    /\ \E st \in EngineStatuses, take \in BOOLEAN, lock \in BOOLEAN,
          wr \in BOOLEAN, ots \in PtsInputs :
          LET has_data  == ~loc.bs_null /\ bs.DataLength > 0
              takes     == has_data /\ (st = MFX_ERR_MORE_DATA \/
                                        (st = MFX_ERR_NONE /\ take))
              inflight1 == IF takes THEN inflight \cup {bs.TimeStamp}
                           ELSE IF loc.bs_null /\ st = MFX_ERR_MORE_DATA THEN {}
                           ELSE inflight
              locks     == \/ st = MFX_ERR_MORE_SURFACE
                           \/ st \in {MFX_ERR_NONE, MFX_ERR_MORE_DATA} /\ lock
              sync1     == IF st = MFX_ERR_NONE THEN "job"
                           ELSE IF wr THEN "null" ELSE loc.sync
              l1        == [loc EXCEPT !.ret = st, !.sync = sync1, !.outts = ots]
          IN  /\ (st # MFX_ERR_NONE \/ ~has_data) => take
              /\ st \notin {MFX_ERR_NONE, MFX_ERR_MORE_DATA} => lock
              /\ st = MFX_ERR_NONE => wr
              /\ IF st = MFX_ERR_NONE
                 THEN ots \in inflight1 /\ inflight' = inflight1 \ {ots}
                 ELSE ots = AV_NOPTS_VALUE /\ inflight' = inflight1
              /\ bs' = IF takes
                       THEN [bs EXCEPT !.DataOffset = @ + bs.DataLength,
                                       !.DataLength = 0]
                       ELSE bs
              /\ surflist' = IF locks
                             THEN [surflist EXCEPT ![loc.insurf].Locked = TRUE]
                             ELSE surflist
              /\ IF st = MFX_WRN_DEVICE_BUSY
                 THEN IF busy_timed_out(loc.busymsec)
                      THEN Return("decode", AVERROR_EIO)
                      ELSE /\ loc' = [l1 EXCEPT !.busymsec = @ + 1]
                           /\ pc' = "loop" /\ out' = out
                 ELSE /\ loc' = [l1 EXCEPT !.busymsec = 0]
                      /\ pc' = IF st \in RetrySet THEN "loop" ELSE "end"
                      /\ out' = out
    /\ UNCHANGED <<life, need_reinit, last_ret, pending, freed_locked>>
    /\ UNCHANGED tsvars /\ UNCHANGED histvars
    /\ UNCHANGED <<submitted, resubmitted>> /\ UNCHANGED unitvars

(***************************************************************************)
(* Lines 413-455.  sync is tested although nothing has stored to it when   *)
(* the loop was left before the first engine call (or the engine left it   *)
(* alone): the test then goes either way, and when it is taken outsurf is  *)
(* a wild pointer too -- the process dies or reads some timestamp.         *)
(***************************************************************************)
ExitRet == IF loc.ret = MFX_ERR_MORE_DATA THEN 0 ELSE loc.ret

\* if (sync) not taken.
EndNoFrame ==
    /\ pc = "end" /\ loc.sync \in {"null", "uninit"}
    /\ last_ret' = loc.ret
    /\ Return("decode", IF ExitRet < 0 THEN ff_qsv_error(ExitRet) ELSE loc.size)
    /\ UNCHANGED <<life, need_reinit, bs, surflist, pending, inflight,
                   freed_locked>>
    /\ UNCHANGED tsvars /\ UNCHANGED histvars
    /\ UNCHANGED <<submitted, resubmitted>> /\ UNCHANGED unitvars

\* if (sync) taken: get_dts, ff_get_buffer (buf_ok), the frame.
EndFrame ==
    /\ pc = "end" /\ loc.sync \in {"job", "uninit"}
    /\ \E ots \in PtsInputs \cup WildTimestamps, buf_ok \in BOOLEAN :
          LET r == get_dts(timestamps, nb_timestamps, ots)
          IN  /\ loc.sync = "job" => ots = loc.outts
              /\ loc.sync = "uninit" => ots \in WildTimestamps
              /\ SessGet(ots, buf_ok)
              /\ pc' = "idle" /\ loc' = IdleLoc
              /\ out' = IF r.ret < 0
                        THEN [out EXCEPT !.rv = r.ret]
                        ELSE IF ~buf_ok
                        THEN [out EXCEPT !.rv = AVERROR_ENOMEM]
                        ELSE [op |-> "decode", rv |-> loc.size, got_frame |-> TRUE]
    /\ last_ret' = loc.ret
    /\ UNCHANGED <<life, need_reinit, bs, surflist, pending, inflight,
                   freed_locked>>
    /\ UNCHANGED <<submitted, resubmitted>> /\ UNCHANGED unitvars

\* if (sync) taken on an uninitialised sync: outsurf is dereferenced wild.
EndWild ==
    /\ pc = "end" /\ loc.sync = "uninit"
    /\ last_ret' = loc.ret
    /\ Crash
    /\ UNCHANGED <<need_reinit, bs, surflist, pending, inflight,
                   freed_locked>>
    /\ UNCHANGED tsvars /\ UNCHANGED histvars
    /\ UNCHANGED <<submitted, resubmitted>> /\ UNCHANGED unitvars

DecodeEnd == EndNoFrame \/ EndFrame \/ EndWild

(***************************************************************************)
(* The engine finishes with a surface and clears its lock.  The code reads *)
(* Locked in get_surface only, so the lock is cleared where that can be    *)
(* told apart: between calls and before a round of the decode loop.        *)
(***************************************************************************)
EngineUnlock ==
    /\ life = "active" /\ pc \in {"idle", "loop"}
    /\ \E i \in 1..Len(surflist) :
          /\ surflist[i].Locked
          /\ surflist' = [surflist EXCEPT ![i].Locked = FALSE]
    /\ UNCHANGED <<life, need_reinit, last_ret, bs, pending, pc, loc, out,
                   inflight, freed_locked>>
    /\ UNCHANGED tsvars /\ UNCHANGED histvars
    /\ UNCHANGED <<submitted, resubmitted>> /\ UNCHANGED unitvars

(***************************************************************************)
(* ff_qsv_flush.  reset_ok is whether MFXVideoDECODE_Reset succeeds; when  *)
(* it does the engine has dropped its locks and its frames, when it does   *)
(* not it still holds them.  The return value goes through ff_qsv_error    *)
(* whatever it is (the if on line 462 has an empty body).                  *)
(***************************************************************************)
QsvFlush ==
    /\ life = "active" /\ pc = "idle"
    /\ \E reset_ok \in BOOLEAN :
          LET st   == IF reset_ok THEN MFX_ERR_NONE ELSE MFX_ERR_INVALID_VIDEO_PARAM
              list == IF reset_ok THEN engine_release(surflist) ELSE surflist
          IN  /\ Return("flush", ff_qsv_error(st))
              /\ inflight' = IF reset_ok THEN {} ELSE inflight
              /\ freed_locked' = frees_locked(list)
              /\ surflist' = free_surface_list(list)
    /\ bs' = [bs EXCEPT !.DataOffset = 0, !.DataLength = 0]
    /\ SessFlush
    /\ pending' = <<>>
    /\ UNCHANGED <<life, need_reinit, last_ret>>
    /\ UNCHANGED <<submitted, resubmitted>> /\ UNCHANGED unitvars

(***************************************************************************)
(* ff_qsv_close.  close_ok is whether MFXClose succeeds.                   *)
(***************************************************************************)
QsvClose ==
    /\ life \in {"active", "failed"} /\ pc = "idle"
    /\ \E close_ok \in BOOLEAN :
          LET st   == IF close_ok THEN MFX_ERR_NONE ELSE MFX_ERR_INVALID_HANDLE
              list == IF close_ok THEN engine_release(surflist) ELSE surflist
          IN  /\ Return("close", ff_qsv_error(st))
              /\ freed_locked' = frees_locked(list)
              /\ surflist' = free_surface_list(list)
    /\ life' = "closed"
    /\ timestamps' = <<>>
    /\ pending' = <<>>
    /\ inflight' = {}
    /\ UNCHANGED <<need_reinit, last_ret, bs, nb_timestamps, put_dts_cnt,
                   decoded_cnt>>
    /\ UNCHANGED histvars
    /\ UNCHANGED <<submitted, resubmitted>> /\ UNCHANGED unitvars

(***************************************************************************)
(* ff_qsv_reinit: MFXClose (result dropped), free_surface_list,            *)
(* av_freep(&q->timestamps), ff_qsv_init, need_reinit = 0.                 *)
(***************************************************************************)
QsvReinit ==
    /\ life = "active" /\ pc = "idle"
    /\ \E close_ok \in BOOLEAN, fail_at \in InitFailures,
          suggested \in {MaxSuggested} :
          LET list == IF close_ok THEN engine_release(surflist) ELSE surflist
          IN  /\ freed_locked' = frees_locked(list)
              /\ surflist' = free_surface_list(list)
              /\ InitBody(fail_at, suggested, <<>>)
              /\ Return("reinit", init_return(fail_at))
    /\ need_reinit' = FALSE
    /\ pending' = IF need_reinit THEN keep(pending) ELSE pending
    /\ UNCHANGED <<submitted, resubmitted>> /\ UNCHANGED unitvars

Next ==
    \/ QsvInit
    \/ DecodeBegin
    \/ DecodeLoop
    \/ DecodeCall
    \/ DecodeEnd
    \/ EngineUnlock
    \/ QsvFlush
    \/ QsvClose
    \/ QsvReinit

Spec == Init /\ [][Next]_vars


(***************************************************************************)
(* Properties of a session (checked under Spec).                           *)
(***************************************************************************)

\* A step in which get_surface gave a surface: the loop goes on to the
\* engine call.
IsAcquireStep == pc = "loop" /\ pc' = "call"

AllLocked(list) == \A j \in 1..Len(list) : list[j].Locked

\* C2: the surface get_surface hands to MFXVideoDECODE_DecodeFrameAsync is
\* not locked; it is the first entry of the list that is not locked, the list
\* being left as it was, or, every entry being locked, a new entry appended
\* to the list.
C2_AcquireUnlocked ==
    [][IsAcquireStep =>
         LET i == loc'.insurf
         IN  /\ i \in 1..Len(surflist')
             /\ ~surflist'[i].Locked
             /\ \/ /\ surflist' = surflist
                   /\ \A j \in 1..(i - 1) : surflist[j].Locked
                \/ /\ AllLocked(surflist)
                   /\ i = Len(surflist) + 1
                   /\ surflist' = Append(surflist, [Locked |-> FALSE])]_vars

\* The first surface is handed out again while a second one exists: the
\* second was appended because the first was locked, so the engine has
\* cleared that lock since and get_surface has taken the surface up again.
C2_Witness ==
    /\ pc = "call" /\ loc.insurf = 1
    /\ Len(surflist) = 2 /\ surflist[2].Locked

\* C3: no call frees a surface of the pool while the engine holds it locked.
C3_NeverFreesLocked == ~freed_locked

\* C4 as stated: the call is over as soon as the time counted busy exceeds
\* the timeout, so no step of a call starts with a count above it.
C4_ReturnsOnceExceeded == loc.busymsec <= Timeout

\* The answer to an engine call is MFX_WRN_DEVICE_BUSY and the call goes on.
BusyGoesOn == pc = "call" /\ pc' = "loop" /\ loc'.ret = MFX_WRN_DEVICE_BUSY

\* The answer to an engine call is not MFX_WRN_DEVICE_BUSY.
NotBusyAnswer == pc = "call" /\ pc' # "idle" /\ loc'.ret # MFX_WRN_DEVICE_BUSY

\* An engine call ends the decode call with AVERROR(EIO).
EioFromCall ==
    pc = "call" /\ pc' = "idle" /\ out'.op = "decode" /\ out'.rv = AVERROR_EIO

\* C4: a busy answer that finds the count at or below the timeout adds one
\* to it and the call goes on; a busy answer that finds it above the timeout
\* ends the call with AVERROR(EIO), and no engine call ends it so while the
\* count is at or below the timeout; any other answer sets the count to
\* zero.  The count never passes timeout + 1, which bounds the busy answers
\* in a row a call can take.
C4_BusyTimeout ==
    [][/\ BusyGoesOn => /\ loc.busymsec <= Timeout
                        /\ loc'.busymsec = loc.busymsec + 1
       /\ EioFromCall => loc.busymsec > Timeout
       /\ (pc = "call" /\ loc.busymsec > Timeout) =>
              (EioFromCall \/ NotBusyAnswer)
       /\ NotBusyAnswer => loc'.busymsec = 0
       /\ loc'.busymsec <= Timeout + 1]_vars

\* The count is above the timeout and the call is about to ask the engine
\* once more.
C4_Witness == pc = "call" /\ loc.busymsec = Timeout + 1

\* C5: ff_qsv_decode does not return AVERROR(EAGAIN), what ff_qsv_error
\* makes of MFX_ERR_MORE_DATA, MFX_ERR_MORE_SURFACE and
\* MFX_ERR_MORE_BITSTREAM.
C5_WouldBlockAbsorbed ==
    (pc = "idle" /\ out.op = "decode") => out.rv # AVERROR_EAGAIN

IsPrefix(p, q) == Len(p) <= Len(q) /\ SubSeq(q, 1, Len(p)) = p

\* A step of ff_qsv_flush or ff_qsv_close, which drop the queue.
IsFlushOrClose == pc = "idle" /\ pc' = "idle" /\ out'.op \in {"flush", "close"}

\* C6: the step that sets need_reinit leaves the pending queue as it is;
\* from then until ff_qsv_reinit has returned, flush and close apart, the
\* queue only has packets appended; ff_qsv_reinit itself leaves it as it is.
C6_ReinitKeepsPending ==
    [][/\ (~need_reinit /\ need_reinit') => pending' = pending
       /\ (need_reinit /\ ~IsFlushOrClose) =>
              IsPrefix(packets(pending), packets(pending'))
       /\ (need_reinit /\ ~need_reinit') =>
              packets(pending') = packets(pending)]_vars

\* A packet that sat in the queue through such a reinit has been popped and
\* given to put_dts and bitstream_enqueue by a later decode call.
C6_Witness == resubmitted /\ put_dts_cnt >= 1 /\ bs.DataLength > 0

(***************************************************************************)
(* SpecBS: the bitstream buffer driven by the calls made on it             *)
(* (bitstream_enqueue from ff_qsv_decode, the engine taking bytes from the *)
(* front, the reset of ff_qsv_flush), in any order, with the bytes it      *)
(* holds.                                                                  *)
(***************************************************************************)
bsrest == <<need_reinit, last_ret, surflist, pending, pc, loc, out, inflight,
            freed_locked, submitted, resubmitted, xl>>

BSInitState ==
    /\ life = "active" /\ need_reinit = FALSE /\ last_ret = MFX_ERR_MORE_DATA
    /\ timestamps = <<>> /\ nb_timestamps = 0
    /\ put_dts_cnt = 0 /\ decoded_cnt = 0
    /\ bs = EmptyBs /\ surflist = <<>> /\ pending = <<>>
    /\ pc = "idle" /\ loc = IdleLoc /\ out = NoOut /\ inflight = {}
    /\ owed = NoOwed /\ dup_put = FALSE /\ clobbered = FALSE
    /\ g = NoGet /\ n_double = 0 /\ n_reorder = 0
    /\ freed_locked = FALSE /\ submitted = 0 /\ resubmitted = FALSE
    /\ UnitIdle

\* bitstream_enqueue as ff_qsv_decode calls it on a popped packet.  A copy
\* through a null bs->Data ends the run.
BsEnqueue ==
    /\ life = "active"
    /\ \E data \in Payloads, alloc_ok \in BOOLEAN :
          /\ bs.DataLength + Len(data) <= MaxBsLength
          /\ LET r == bitstream_enqueue(bs, Len(data), alloc_ok)
             IN  /\ bs' = r.bs
                 /\ mem' = mem_enqueue(mem, bs, data, alloc_ok)
                 /\ fed' = IF r.ret = 0 THEN fed \o data ELSE fed
                 /\ bs_failed' = (bs_failed \/ r.ret < 0)
                 /\ bs_did' =
                        [grew  |-> bs_did.grew \/
                                   (r.ret = 0 /\ r.bs.MaxLength > bs.MaxLength),
                         moved |-> bs_did.moved \/
                                   (/\ r.ret = 0 /\ bs.DataLength > 0
                                    /\ bs.DataOffset > 0 /\ r.bs.DataOffset = 0)]
                 /\ life' = IF r.wild THEN "crashed" ELSE life
    /\ UNCHANGED bsrest /\ UNCHANGED tsvars /\ UNCHANGED histvars

\* MFXVideoDECODE_DecodeFrameAsync takes k bytes from the front.
BsConsume ==
    /\ life = "active"
    /\ \E k \in 1..bs.DataLength :
          /\ bs' = [bs EXCEPT !.DataOffset = @ + k, !.DataLength = @ - k]
          /\ fed' = SubSeq(fed, k + 1, Len(fed))
    /\ UNCHANGED <<life, mem, bs_failed, bs_did>>
    /\ UNCHANGED bsrest /\ UNCHANGED tsvars /\ UNCHANGED histvars

\* The reset of the buffer in ff_qsv_flush.
BsReset ==
    /\ life = "active"
    /\ bs' = [bs EXCEPT !.DataOffset = 0, !.DataLength = 0]
    /\ fed' = <<>>
    /\ UNCHANGED <<life, mem, bs_failed, bs_did>>
    /\ UNCHANGED bsrest /\ UNCHANGED tsvars /\ UNCHANGED histvars

BSNext == BsEnqueue \/ BsConsume \/ BsReset

SpecBS == BSInitState /\ [][BSNext]_vars

\* C11: as long as every bitstream_enqueue has succeeded, after any enqueues,
\* engine consumption and resets the unread bytes lie inside the storage
\* (DataOffset + DataLength <= MaxLength, and MaxLength is the size of the
\* storage held), so the payload an enqueue has just stored, the last bytes
\* of the unread part, lies inside it too.
C11_BitstreamBounds ==
    ~bs_failed =>
        /\ bs.DataOffset >= 0 /\ bs.DataLength >= 0
        /\ bs.DataOffset + bs.DataLength <= bs.MaxLength
        /\ Len(mem) = bs.MaxLength

\* The unread bytes end at the end of a storage that was grown, after bytes
\* were taken from the front.
C11_Witness ==
    /\ ~bs_failed /\ bs.MaxLength = MaxBsLength
    /\ bs.DataOffset > 0 /\ bs.DataLength > 0
    /\ bs.DataOffset + bs.DataLength = bs.MaxLength

\* C12: as long as every bitstream_enqueue has succeeded, whatever the
\* enqueues (growing the storage or moving the unread bytes to the front),
\* the consumption from the front and the resets, the bytes visible to the
\* engine are the enqueued payloads in order without the consumed prefix.
C12_ContentPreserved == ~bs_failed => visible(mem, bs) = fed

\* Unread bytes of two values, after the storage was grown and after unread
\* bytes were moved to the front.
C12_Witness ==
    /\ ~bs_failed /\ bs_did.grew /\ bs_did.moved
    /\ Len(fed) >= 2 /\ fed[1] # fed[2]
    /\ visible(mem, bs) = fed

\* C13: after a failed reallocation the buffer describes no bytes: while
\* bs->Data is null DataLength is 0 and MaxLength is not above the storage
\* held.
C13_FailedReallocLeavesEmpty ==
    bs.Data = "null" => bs.DataLength = 0 /\ bs.MaxLength <= Len(mem)

\* A step of ff_qsv_flush.
IsFlushStep == pc = "idle" /\ pc' = "idle" /\ out'.op = "flush"

\* C14: after ff_qsv_flush, whatever the state it was called in, the
\* bitstream buffer has DataOffset = DataLength = 0 and the MaxLength it had,
\* the surface list is empty, the timestamp array has the size it had and
\* the sentinel in both fields of every slot, the pending queue is empty,
\* and the session is still open.
C14_FlushPostcondition ==
    [][IsFlushStep =>
          /\ bs'.DataOffset = 0 /\ bs'.DataLength = 0
          /\ bs'.MaxLength = bs.MaxLength
          /\ surflist' = <<>>
          /\ nb_timestamps' = nb_timestamps
          /\ Len(timestamps') = nb_timestamps
          /\ \A i \in 1..nb_timestamps : timestamps'[i] = EmptySlot
          /\ pending' = <<>>
          /\ life' = "active"]_vars

\* A flushed session that had packets put and storage allocated for the
\* bitstream.
C14_Witness ==
    /\ pc = "idle" /\ out.op = "flush" /\ life = "active"
    /\ put_dts_cnt >= 2 /\ bs.MaxLength > 0 /\ bs.DataLength = 0
    /\ pending = <<>> /\ surflist = <<>>

\* A step of ff_qsv_init or ff_qsv_reinit that returns 0.
IsInitOkStep ==
    pc = "idle" /\ pc' = "idle" /\ out'.op \in {"init", "reinit"} /\ out'.rv = 0

\* C15: after a successful ff_qsv_init or ff_qsv_reinit the timestamp array
\* has NumFrameSuggested + AsyncDepth slots (the engine of the session
\* suggests MaxSuggested surfaces), every slot holds the sentinel in both
\* fields, put_dts_cnt and decoded_cnt are 0 and last_ret is
\* MFX_ERR_MORE_DATA.
C15_InitSizing ==
    [][IsInitOkStep =>
          /\ nb_timestamps' = MaxSuggested + ASYNC_DEPTH_DEFAULT
          /\ Len(timestamps') = nb_timestamps'
          /\ \A i \in 1..nb_timestamps' : timestamps'[i] = EmptySlot
          /\ put_dts_cnt' = 0 /\ decoded_cnt' = 0
          /\ last_ret' = MFX_ERR_MORE_DATA]_vars

\* A successful reinit of a session that had taken in all its packets and
\* had put bytes into the bitstream buffer.
C15_Witness ==
    /\ pc = "idle" /\ out.op = "reinit" /\ out.rv = 0 /\ life = "active"
    /\ submitted = MaxPackets /\ bs.MaxLength > 0
    /\ put_dts_cnt = 0 /\ last_ret = MFX_ERR_MORE_DATA

(***************************************************************************)
(* SpecErr: ff_qsv_error called on one status after another.               *)
(***************************************************************************)
ERInitState ==
    /\ life = "active" /\ need_reinit = FALSE /\ last_ret = MFX_ERR_MORE_DATA
    /\ timestamps = <<>> /\ nb_timestamps = 0
    /\ put_dts_cnt = 0 /\ decoded_cnt = 0
    /\ bs = EmptyBs /\ surflist = <<>> /\ pending = <<>>
    /\ pc = "idle" /\ loc = IdleLoc /\ out = NoOut /\ inflight = {}
    /\ owed = NoOwed /\ dup_put = FALSE /\ clobbered = FALSE
    /\ g = NoGet /\ n_double = 0 /\ n_reorder = 0
    /\ freed_locked = FALSE /\ submitted = 0 /\ resubmitted = FALSE
    /\ mem = <<>> /\ fed = <<>> /\ bs_failed = FALSE /\ bs_did = NoDid
    /\ \E e \in StatusInputs :
          xl = [err |-> e, ret |-> ff_qsv_error(e),
                prev_err |-> e, prev_ret |-> ff_qsv_error(e)]

ErrTranslate ==
    /\ \E e \in StatusInputs :
          xl' = [err |-> e, ret |-> ff_qsv_error(e),
                 prev_err |-> xl.err, prev_ret |-> xl.ret]
    /\ UNCHANGED sessvars /\ UNCHANGED tsvars /\ UNCHANGED histvars
    /\ UNCHANGED <<mem, fed, bs_failed, bs_did>>

ERNext == ErrTranslate

SpecErr == ERInitState /\ [][ERNext]_vars

\* The error kind the mapping is said to give for each status.
ErrorKindOf(status) ==
    IF status \in {MFX_ERR_MEMORY_ALLOC, MFX_ERR_NOT_ENOUGH_BUFFER}
    THEN AVERROR_ENOMEM
    ELSE IF status \in {MFX_ERR_INVALID_HANDLE, MFX_ERR_INVALID_VIDEO_PARAM,
                        MFX_ERR_INCOMPATIBLE_VIDEO_PARAM}
    THEN AVERROR_EINVAL
    ELSE IF status \in {MFX_ERR_DEVICE_FAILED, MFX_ERR_DEVICE_LOST,
                        MFX_ERR_LOCK_MEMORY}
    THEN AVERROR_EIO
    ELSE IF status \in {MFX_ERR_NULL_PTR, MFX_ERR_UNDEFINED_BEHAVIOR,
                        MFX_ERR_NOT_INITIALIZED}
    THEN AVERROR_BUG
    ELSE IF status \in {MFX_ERR_UNSUPPORTED, MFX_ERR_NOT_FOUND}
    THEN AVERROR_ENOSYS
    ELSE IF status \in {MFX_ERR_MORE_DATA, MFX_ERR_MORE_SURFACE,
                        MFX_ERR_MORE_BITSTREAM}
    THEN AVERROR_EAGAIN
    ELSE IF status = MFX_ERR_NONE THEN 0
    ELSE AVERROR_UNKNOWN

\* C16: ff_qsv_error gives every status, listed or not, the error kind of
\* its class (total), and gives the same status the same kind each time
\* (pure).
C16_ErrorMapping ==
    /\ xl.ret = ErrorKindOf(xl.err)
    /\ xl.prev_ret = ErrorKindOf(xl.prev_err)
    /\ xl.err = xl.prev_err => xl.ret = xl.prev_ret

\* A warning, which is not listed, translated after a listed status.
C16_Witness ==
    /\ xl.prev_err = MFX_ERR_MORE_BITSTREAM /\ xl.prev_ret = AVERROR_EAGAIN
    /\ xl.err = MFX_WRN_DEVICE_BUSY /\ xl.ret = AVERROR_UNKNOWN

\* A step of the loop of ff_qsv_decode from its top (line 354) to the engine
\* call, to the end of the loop or out of the function.
IsLoopStep == pc = "loop" /\ pc' # "loop"

\* C17: when the loop meets MFX_ERR_INCOMPATIBLE_VIDEO_PARAM with the
\* bitstream still given to the engine, it takes the bitstream away and
\* sets need_reinit; the bitstream stays away for the rest of the call and
\* need_reinit stays set until ff_qsv_reinit; when it meets that status
\* with the bitstream already taken away, ff_qsv_decode returns AVERROR_BUG.
C17_IncompatibleProtocol ==
    [][/\ (IsLoopStep /\ loc.ret = MFX_ERR_INCOMPATIBLE_VIDEO_PARAM
                      /\ ~loc.bs_null)
            => (need_reinit' /\ loc'.bs_null /\ pc' \in {"call", "end"})
       /\ (IsLoopStep /\ loc.ret = MFX_ERR_INCOMPATIBLE_VIDEO_PARAM
                      /\ loc.bs_null)
            => (pc' = "idle" /\ out'.op = "decode" /\ out'.rv = AVERROR_BUG)
       /\ (pc # "idle" /\ pc' # "idle" /\ loc.bs_null) => loc'.bs_null
       /\ (need_reinit /\ ~need_reinit')
            => (pc = "idle" /\ pc' = "idle" /\ out'.op = "reinit")]_vars

\* The engine is about to be called without the bitstream in the call that
\* met the incompatible parameters and set need_reinit.
C17_Witness ==
    /\ pc = "call" /\ loc.ret = MFX_ERR_INCOMPATIBLE_VIDEO_PARAM
    /\ loc.bs_null /\ need_reinit /\ ~loc.entry_reinit

\* C18: in a call of ff_qsv_decode that finds need_reinit set on entry, the
\* entry only appends the incoming packet to the pending queue, and no step
\* of the call pops a packet, calls put_dts or changes the bitstream
\* buffer; every engine call of it is made without the bitstream.
C18_FlushBeforeReinit ==
    [][/\ (pc = "idle" /\ pc' = "loop" /\ need_reinit)
            => /\ loc'.bs_null /\ loc'.entry_reinit
               /\ IsPrefix(pending, pending')
               /\ put_dts_cnt' = put_dts_cnt /\ bs' = bs
       /\ (pc # "idle" /\ loc.entry_reinit)
            => /\ pending' = pending
               /\ put_dts_cnt' = put_dts_cnt
               /\ bs' = bs
               /\ pc' = "call" => loc'.bs_null]_vars

\* An engine call without the bitstream, in a call that found need_reinit
\* set, while a packet waits in the pending queue.
C18_Witness ==
    /\ pc = "call" /\ loc.entry_reinit /\ loc.bs_null
    /\ need_reinit /\ pending # <<>>

\* C19: a call of ff_qsv_decode whose get_surface gave NULL, and in which
\* no frame is waiting (the engine has stored a null sync point), returns
\* no error, whatever the status the loop had reached.
C19_AcquireFailureIsSoft ==
    [][(pc = "end" /\ loc.insurf = 0 /\ loc.sync = "null" /\ pc' = "idle")
          => out'.rv >= 0]_vars

\* The original reading of C20: in a call with the empty packet that was
\* entered on MFX_ERR_MORE_DATA the bitstream is taken away only when the
\* pending queue is empty.
C20_DrainOnlyWhenQueueEmpty ==
    (pc # "idle" /\ loc.size = 0 /\ last_ret = MFX_ERR_MORE_DATA /\ loc.bs_null)
        => pending = <<>>

\* C20: at MFX_ERR_MORE_DATA with the bitstream still given, a queued packet
\* is popped, handed to put_dts and appended to the bitstream buffer before
\* the next engine call; with the queue empty and the empty packet the
\* bitstream is taken away; at MFX_ERR_MORE_DATA with the bitstream taken
\* away the loop stops.  The bitstream is taken away inside the loop only
\* by that end-of-stream rule or on MFX_ERR_INCOMPATIBLE_VIDEO_PARAM, so in
\* a call with the empty packet entered on MFX_ERR_MORE_DATA it is away
\* with packets still queued only when need_reinit is set.
C20_EofOrdering ==
    [][/\ (IsLoopStep /\ loc.ret = MFX_ERR_MORE_DATA /\ ~loc.bs_null
                      /\ pending # <<>>)
            => /\ pending' = Tail(pending)
               /\ pc' # "idle"
                    => /\ ~loc'.bs_null
                       /\ put_dts_cnt' = put_dts_cnt + 1
                       /\ bs'.DataLength = bs.DataLength + Head(pending).size
       /\ (IsLoopStep /\ loc.ret = MFX_ERR_MORE_DATA /\ ~loc.bs_null
                      /\ pending = <<>> /\ loc.size = 0)
            => (loc'.bs_null /\ pc' \in {"call", "end"})
       /\ (IsLoopStep /\ loc.ret = MFX_ERR_MORE_DATA /\ loc.bs_null)
            => (pc' = "end" /\ bs' = bs /\ pending' = pending)
       /\ (pc = "loop" /\ ~loc.bs_null /\ pc' # "idle" /\ loc'.bs_null)
            => \/ loc.ret = MFX_ERR_MORE_DATA /\ pending = <<>> /\ loc.size = 0
               \/ loc.ret = MFX_ERR_INCOMPATIBLE_VIDEO_PARAM
       /\ (pc # "idle" /\ loc.size = 0 /\ last_ret = MFX_ERR_MORE_DATA
                       /\ loc.bs_null /\ ~need_reinit)
            => pending = <<>>]_vars

\* The engine call without the bitstream in a call with the empty packet
\* that has popped the packet a reinit had left in the queue.
C20_Witness ==
    /\ pc = "call" /\ loc.size = 0 /\ loc.bs_null /\ ~need_reinit
    /\ last_ret = MFX_ERR_MORE_DATA /\ resubmitted /\ pending = <<>>

\* A step of ff_qsv_reinit.
IsReinitStep == pc = "idle" /\ pc' = "idle" /\ out'.op = "reinit"

\* The timestamp array as ff_qsv_init sizes it.
FreshlySized ==
    /\ nb_timestamps = MaxSuggested + ASYNC_DEPTH_DEFAULT
    /\ timestamps = fresh_timestamps(nb_timestamps)
    /\ put_dts_cnt = 0 /\ decoded_cnt = 0

C22_PutNeverOverwritesLive == ~clobbered

\* C23: a call of ff_qsv_decode whose last engine call did not hand back a
\* sync point -- one that left the loop before any engine call among them --
\* ends without the frame-output step: no get_dts, decoded_cnt as it was,
\* got_frame 0, and no wild pointer read.
C23_FrameOnlyAfterJob ==
    [][(pc = "end" /\ pc' = "idle" /\ loc.sync # "job")
          => /\ timestamps' = timestamps /\ decoded_cnt' = decoded_cnt
             /\ ~out'.got_frame /\ out'.op = "decode"]_vars

====
